---- MODULE Spec2Model ----
(***************************************************************************)
(* The HiveMind protocol client (modular client src/unnamed/part_000 and   *)
(* single-file client src/unnamed/part_001) over a chain RPC endpoint.     *)
(*                                                                         *)
(* Every async method is split at its awaits: one action is the resolution *)
(* of the RPC call in flight plus the synchronous code up to the next      *)
(* await. The chain (mining, other accounts) is the environment.           *)
(*                                                                         *)
(* bigint amounts exceed TLC's 32-bit integers (the approval ceiling is    *)
(* 10^12), so a bigint is a pair [hi, lo] of value hi * 10^6 + lo,         *)
(* 0 <= lo < 10^6.                                                         *)
(***************************************************************************)
EXTENDS Integers, Sequences, FiniteSets, TLC

\* ------------------------------------------------------------ bounds
\* how many calls the program makes one after the other
MaxCalls == 2
\* how long other accounts let the project list grow
MaxProjects == 2

\* --------------------------------------------------------- constants
USDC_DECIMALS == 6
CeilingUsdc == 1000000

RECURSIVE Pow10(_)
Pow10(n) == IF n = 0 THEN 1 ELSE 10 * Pow10(n - 1)

Unit == Pow10(USDC_DECIMALS)

\* ------------------------------------------------------------ bigint
Big(h, l) == [hi |-> h, lo |-> l]
BigZero == Big(0, 0)
NoBig == Big(-1, 0)
BigLt(a, b) == a.hi < b.hi \/ (a.hi = b.hi /\ a.lo < b.lo)
BigLe(a, b) == ~BigLt(b, a)
BigSub(a, b) ==
  IF a.lo >= b.lo THEN Big(a.hi - b.hi, a.lo - b.lo)
  ELSE Big(a.hi - b.hi - 1, a.lo + Unit - b.lo)

\* ------------------------------------------------ amounts of any size
\* A bigint, or the run of digits of a decimal string, as its decimal digits,
\* most significant first: balances and the significands of JS numbers do
\* not fit TLC's integers.
Zeros(n) == [i \in 1..n |-> 0]

RECURSIVE DigitsOf(_)
DigitsOf(i) == IF i < 10 THEN <<i>> ELSE Append(DigitsOf(i \div 10), i % 10)

RECURSIVE Pow2(_)
Pow2(k) == IF k = 0 THEN 1 ELSE 2 * Pow2(k - 1)

Max(a, b) == IF a > b THEN a ELSE b

\* BigInt(digits): leading zeros do not count, no digits at all is 0n
RECURSIVE Trim(_)
Trim(ds) ==
  IF ds = <<>> THEN <<0>>
  ELSE IF Len(ds) > 1 /\ ds[1] = 0 THEN Trim(Tail(ds))
  ELSE ds

\* fraction.replace(/(0+)$/, '')
RECURSIVE StripEnd(_)
StripEnd(ds) ==
  IF ds # <<>> /\ ds[Len(ds)] = 0 THEN StripEnd(SubSeq(ds, 1, Len(ds) - 1))
  ELSE ds

RECURSIVE LexCmp(_, _)
LexCmp(a, b) ==
  IF a = <<>> THEN 0
  ELSE IF a[1] < b[1] THEN -1
  ELSE IF a[1] > b[1] THEN 1
  ELSE LexCmp(Tail(a), Tail(b))

\* -1, 0 or 1 as a < b, a = b or a > b
DecCmp(a, b) ==
  IF Len(a) < Len(b) THEN -1
  ELSE IF Len(a) > Len(b) THEN 1
  ELSE LexCmp(a, b)

RECURSIVE AddDigits(_, _, _)
AddDigits(a, b, carry) ==
  IF a = <<>> THEN (IF carry = 0 THEN <<>> ELSE <<carry>>)
  ELSE LET n == Len(a)
           d == a[n] + b[n] + carry
       IN Append(AddDigits(SubSeq(a, 1, n - 1), SubSeq(b, 1, n - 1), d \div 10),
                 d % 10)

DecAdd(a, b) ==
  LET n == Max(Len(a), Len(b))
  IN Trim(AddDigits(Zeros(n - Len(a)) \o a, Zeros(n - Len(b)) \o b, 0))

RECURSIVE SubDigits(_, _, _)
SubDigits(a, b, borrow) ==
  IF a = <<>> THEN <<>>
  ELSE LET n == Len(a)
           d == a[n] - b[n] - borrow
       IN Append(SubDigits(SubSeq(a, 1, n - 1), SubSeq(b, 1, n - 1),
                           IF d < 0 THEN 1 ELSE 0),
                 IF d < 0 THEN d + 10 ELSE d)

\* a - b for a >= b
DecSub(a, b) == Trim(SubDigits(a, Zeros(Len(a) - Len(b)) \o b, 0))

RECURSIVE MulDigits(_, _, _)
MulDigits(a, f, carry) ==
  IF a = <<>>
  THEN (IF carry = 0 THEN <<>> ELSE Append(MulDigits(a, f, carry \div 10), carry % 10))
  ELSE LET n == Len(a)
           d == a[n] * f + carry
       IN Append(MulDigits(SubSeq(a, 1, n - 1), f, d \div 10), d % 10)

\* a * f for a small factor f
DecTimes(a, f) == Trim(MulDigits(a, f, 0))

RECURSIVE DivDigits(_, _, _)
DivDigits(a, f, rem) ==
  IF a = <<>> THEN <<>>
  ELSE LET v == rem * 10 + a[1]
       IN <<v \div f>> \o DivDigits(Tail(a), f, v % f)

\* floor(a / f) for a small divisor f
DecDiv(a, f) == Trim(DivDigits(a, f, 0))

\* a * 2^k and floor(a / 2^k); a itself when k <= 0
RECURSIVE Shl(_, _)
Shl(a, k) ==
  IF k <= 0 THEN a
  ELSE IF k > 20 THEN Shl(DecTimes(a, Pow2(20)), k - 20)
  ELSE DecTimes(a, Pow2(k))

RECURSIVE Shr(_, _)
Shr(a, k) ==
  IF k <= 0 THEN a
  ELSE IF k > 20 THEN Shr(DecDiv(a, Pow2(20)), k - 20)
  ELSE DecDiv(a, Pow2(k))

\* a * 10^j and floor(a / 10^j); a itself when j <= 0
MulPow10(a, j) == IF j <= 0 \/ a = <<0>> THEN a ELSE a \o Zeros(j)
DivPow10(a, j) ==
  IF j <= 0 THEN a
  ELSE IF Len(a) <= j THEN <<0>>
  ELSE SubSeq(a, 1, Len(a) - j)

IsOdd(a) == a[Len(a)] % 2 = 1

\* ------------------------------------------------- decimal conversion
\* A JS number in its toString() form: integer part and fraction digits
\* (no trailing zeros).
Num(i, f) == [int |-> i, frac |-> f]

RECURSIVE DigitsVal(_)
DigitsVal(ds) ==
  IF ds = <<>> THEN 0
  ELSE 10 * DigitsVal(SubSeq(ds, 1, Len(ds) - 1)) + ds[Len(ds)]

RECURSIVE PadEnd(_, _)
PadEnd(ds, n) == IF Len(ds) >= n THEN ds ELSE PadEnd(Append(ds, 0), n)

\* viem parseUnits(value, decimals): the fraction is padded to `decimals`
\* digits, or rounded half-up at digit `decimals` when it is longer (a carry
\* out of the fraction goes to the integer part).
ParseUnits(value, decimals) ==
  IF Len(value.frac) > decimals
  THEN LET kept == DigitsVal(SubSeq(value.frac, 1, decimals))
           up == IF value.frac[decimals + 1] >= 5 THEN 1 ELSE 0
           f == kept + up
       IN IF f >= Pow10(decimals) THEN Big(value.int + 1, f - Pow10(decimals))
          ELSE Big(value.int, f)
  ELSE Big(value.int, DigitsVal(PadEnd(value.frac, decimals)))

\* parseUnits('1000000', USDC_DECIMALS), the amount of every approve
Ceiling == ParseUnits(Num(CeilingUsdc, <<>>), USDC_DECIMALS)

\* the amounts callers pass: 0, 0.5, 2 and one above the ceiling
Inputs == {Num(0, <<>>), Num(0, <<5>>), Num(2, <<>>), Num(CeilingUsdc + 1, <<>>)}

\* -------------------------------------------------------------- state
Variants == {"modular", "single"}
FundingOps == {"join", "createProject", "fundProject"}
PlainOps == {"recordContribution", "completeProject", "claimRewards"}
WriteOps == FundingOps \cup PlainOps
Ops == WriteOps \cup {"getProject"}
\* the calls that can be in flight together: the sequential program uses the
\* first only, the concurrent program both
Calls == {1, 2}

\* the ledger function a write method submits
LedgerFn(op) == IF op = "join" THEN "joinHive" ELSE op

VARIABLES
  variant,      \* which client class the program constructed
  calls,        \* the method calls of the client, by call id
  txs,          \* the transactions the client has submitted; hash = index
  allowance,    \* USDC allowance(client address, ledger contract)
  projects,     \* the ledger's project list: the hash of the creating tx
                \* (0 for a project created by another account)
  blockNumber,  \* the chain's head
  agents,       \* the ledger's agents(address) tuple of the address looked up
  lookup,       \* the getAgent call of the client
  started,      \* how many calls the program has made
  units,        \* a unit conversion of the client, from input to output
  config,       \* the HiveMindConfig the program passes to the constructor
  client,       \* the fields of the client object
  url,          \* the last getExplorerUrl call and what it returned
  contribution, \* the getContribution call of the client
  contributions, \* the ledger's recorded contributions
  blocks,       \* the ledger's state after each block, the head last
  reading       \* the getProject or getHiveStats call of the client

\* what the asynchronous methods above never touch
others == <<units, config, client, url, contribution, contributions, blocks,
            reading>>

vars == <<variant, calls, txs, allowance, projects, blockNumber, agents, lookup,
          started, others>>

NoResult == [kind |-> "none"]

\* a call that was not made has no arguments
NoArgs == [given |-> FALSE]

IdleCall ==
  [op |-> "none", args |-> NoArgs, amount |-> NoBig, ensure |-> NoBig,
   pc |-> "idle", steps |-> <<>>,
   allowance |-> NoBig, approveHash |-> 0, hash |-> 0, blockNumber |-> 0,
   count |-> -1, reads |-> <<>>, result |-> NoResult, error |-> "none"]

\* the agents(address) tuple: <<wallet, nodeId, creditsContributed,
\* computeScore, joinedAt, active>>, read by position (result[0..5] in the
\* code, 1..6 here). An address never registered has the all-default tuple.
ZeroAddress == "0x0000000000000000000000000000000000000000"
Queried == "0x0000000000000000000000000000000000000001"
DefaultAgent == <<ZeroAddress, "", 0, 0, 0, FALSE>>
RegisteredAgents ==
  {<<Queried, n, cr, sc, at, act>> :
     n \in {"node-a", "node-b"}, cr \in {0, 5}, sc \in {0, 7},
     at \in {1, 1000}, act \in BOOLEAN}
AgentTuples == {DefaultAgent} \cup RegisteredAgents

NoTuple == <<>>
IdleLookup == [pc |-> "idle", read |-> NoTuple, result |-> NoResult]

\* no unit conversion under way
NoNumber == [m |-> <<>>, sh |-> 0]
NoDigits == <<>>
IdleUnits == [from |-> "none", pc |-> "idle", balance |-> NoDigits,
              number |-> NoNumber, out |-> NoDigits, back |-> NoNumber]


\* -------------------------------------------------------- construction
Undefined == "undefined"

CONTRACTS ==
  [base |-> [hivemind |-> "0xA1021d8287Da2cdFAfFab57CDb150088179e5f5B",
             usdc |-> "0x833589fCD6eDb6E08f4c7C32D4f71b54bdA02913"],
   baseSepolia |-> [hivemind |-> "0x0000000000000000000000000000000000000000",
                    usdc |-> "0x036CbD53842c5426634e7929541eC2318f3dCF7e"]]

CHAINS ==
  [base |-> [id |-> 8453, name |-> "Base", rpcUrl |-> "https://mainnet.base.org",
             explorer |-> "https://basescan.org"],
   baseSepolia |-> [id |-> 84532, name |-> "Base Sepolia",
                    rpcUrl |-> "https://sepolia.base.org",
                    explorer |-> "https://sepolia.basescan.org"]]

SupportedChain == {"base", "baseSepolia"}

HexChars == {"0", "1", "2", "3", "4", "5", "6", "7", "8", "9",
             "a", "b", "c", "d", "e", "f", "A", "B", "C", "D", "E", "F"}

RECURSIVE IsHex(_)
IsHex(s) == s = "" \/ (SubSeq(s, 1, 1) \in HexChars /\ IsHex(SubSeq(s, 2, Len(s))))

\* the value of a hex digit does not depend on its case
LowerChar(ch) ==
  CASE ch = "A" -> "a" [] ch = "B" -> "b" [] ch = "C" -> "c"
    [] ch = "D" -> "d" [] ch = "E" -> "e" [] ch = "F" -> "f"
    [] OTHER -> ch

RECURSIVE Lower(_)
Lower(s) == IF s = "" THEN "" ELSE LowerChar(SubSeq(s, 1, 1)) \o Lower(SubSeq(s, 2, Len(s)))

RECURSIVE IsZeroHex(_)
IsZeroHex(s) == s = "" \/ (SubSeq(s, 1, 1) = "0" /\ IsZeroHex(SubSeq(s, 2, Len(s))))

\* (mutant) the prefix is added whether or not it is there
NormalizeAlways(privateKey) == "0x" \o privateKey

\* constructor: `config.privateKey.startsWith('0x') ? config.privateKey
\*                                                  : `0x${config.privateKey}``
NormalizeKey(privateKey) ==
  IF Len(privateKey) >= 2 /\ SubSeq(privateKey, 1, 2) = "0x" THEN privateKey
  ELSE "0x" \o privateKey

InvalidPrivateKey == [ok |-> FALSE, key |-> "", address |-> ""]

\* viem privateKeyToAccount(pk): the signing key is the 32 bytes that the hex
\* digits after the first two characters spell (anything else throws), the
\* address a function of the key alone (an injective one here)
PrivateKeyToAccount(pk) ==
  LET hex == SubSeq(pk, 3, Len(pk))
  IN IF Len(hex) = 64 /\ IsHex(hex) /\ ~IsZeroHex(hex)
     THEN [ok |-> TRUE, key |-> Lower(hex), address |-> "0x:" \o Lower(hex)]
     ELSE InvalidPrivateKey

NotConstructed == [state |-> "none"]
Threw == [state |-> "threw"]

\* `new HiveMind(config)`: the fields of the object, or the error thrown
HiveMind(v, cfg) ==
  LET chain == IF cfg.chain = Undefined THEN "base" ELSE cfg.chain
      account == PrivateKeyToAccount(IF v = "modular" THEN NormalizeKey(cfg.privateKey)
                                     ELSE cfg.privateKey)
      net == IF v = "modular" THEN chain ELSE "base"
  IN IF ~account.ok THEN Threw
     ELSE [state |-> "constructed", account |-> account, chain |-> chain,
           hivemindAddress |-> CONTRACTS[net].hivemind,
           usdcAddress |-> CONTRACTS[net].usdc,
           rpcUrl |-> IF cfg.rpcUrl = Undefined THEN CHAINS[net].rpcUrl
                      ELSE cfg.rpcUrl]

\* the key of the test suite, and what the programs above construct with
TestKey == "0000000000000000000000000000000000000000000000000000000000000001"
TestConfig == [privateKey |-> "0x" \o TestKey, chain |-> "base", rpcUrl |-> Undefined]

\* 64 hex characters: the test key, one in lower and one in upper case
KeyBodies ==
  {TestKey,
   "ac0974bec39a17e36ba4a6b4d238ff944bacb478cbed5efcae784d7bf4f2ff80",
   "AC0974BEC39A17E36BA4A6B4D238FF944BACB478CBED5EFCAE784D7BF4F2FF80"}
\* key material that is not 32 bytes of hex
Malformed == {"0x1234", SubSeq(TestKey, 1, 63) \o "g"}

Keys(v) ==
  {"0x" \o k : k \in KeyBodies} \cup {"0x" \o k : k \in Malformed}
    \cup (IF v = "modular" THEN KeyBodies \cup Malformed ELSE {})

Configs(v) ==
  {[privateKey |-> k, chain |-> ch, rpcUrl |-> r] :
     k \in Keys(v), ch \in SupportedChain \cup {Undefined},
     r \in {Undefined, "https://rpc.example"}}

\* --------------------------------------------- synchronous utilities
\* (mutant) the explorer of the main network, whatever the client's network
ExplorerOfBase(chain) == CHAINS["base"].explorer

ExplorerOf(chain) == CHAINS[chain].explorer

\* getExplorerUrl: `${CHAINS[this.chain].explorer}/tx/${hash}`
ExplorerUrl(chain, hash) == ExplorerOf(chain) \o "/tx/" \o hash

Hashes32 ==
  {"0x1234567890abcdef1234567890abcdef1234567890abcdef1234567890abcdef",
   "0x00000000000000000000000000000000000000000000000000000000000000ff"}

NoUrl == [hash |-> "", result |-> ""]

\* -------------------------------------------------- getContribution
\* the ledger's contributions(projectId, agent) getter: the recorded
\* <<percentage, claimed>>, or the default of a pair never recorded
Recorded(projectId, agent) ==
  {r \in contributions : r.projectId = projectId /\ r.agent = agent}

Contributions(projectId, agent) ==
  IF Recorded(projectId, agent) = {} THEN <<DigitsOf(0), FALSE>>
  ELSE LET r == CHOOSE r \in Recorded(projectId, agent) : TRUE
       IN <<r.percentage, r.claimed>>

\* (mutant) the caller's own address, whoever was asked about
AgentSelf(agent, self) == self

\* `agent ?? this.address`
AgentOrSelf(agent, self) == IF agent = Undefined THEN self ELSE agent

IdleContribution ==
  [pc |-> "idle", projectId |-> 0, agent |-> Undefined, args |-> <<>>,
   read |-> <<>>, result |-> NoResult, error |-> "none"]

TestAddress == PrivateKeyToAccount(TestConfig.privateKey).address

\* what the ledger can have on record
Records ==
  {{},
   {[projectId |-> 1, agent |-> Queried, percentage |-> DigitsOf(40), claimed |-> FALSE]},
   {[projectId |-> 1, agent |-> Queried, percentage |-> DigitsOf(40), claimed |-> FALSE],
    [projectId |-> 1, agent |-> TestAddress, percentage |-> DigitsOf(60), claimed |-> TRUE]}}

\* the ledger's projects(id) tuple: <<name, repoUrl, creator, totalFunding,
\* createdAt, status>>; a project that does not exist reads as the default
DefaultProject == <<"", "", ZeroAddress, DigitsOf(0), 0, 0>>

\* the ids the program asks about
ProjectIds == 0..2

\* a ledger with two agents and two projects, project 1 in the given status
Ledger(status) ==
  [agentCount |-> DigitsOf(2),
   projectCount |-> DigitsOf(2),
   totalCreditsPooled |-> DigitsOf(5 * Unit),
   projects |-> [id \in ProjectIds |->
                   IF id = 0
                   THEN <<"docs", "https://github.com/hive/docs", TestAddress,
                          DigitsOf(0), 1600, 0>>
                   ELSE IF id = 1
                   THEN <<"hive", "https://github.com/hive/core", Queried,
                          DigitsOf(2 * Unit), 1700, status>>
                   ELSE DefaultProject],
   contributors |-> [id \in ProjectIds |-> IF id = 1 THEN <<Queried>> ELSE <<>>]]

\* a read in flight, and what a read that was served returned
PendingRead == [state |-> "pending", value |-> <<>>]
FailedRead == [state |-> "failed", value |-> <<>>]
Served(value) == [state |-> "ok", value |-> value]

IdleReading ==
  [op |-> "none", pc |-> "idle", projectId |-> -1, names |-> <<>>,
   served |-> <<>>, from |-> 0, result |-> NoResult, error |-> "none"]

\* a constructed client with nothing under way
ClientReady ==
  /\ config = TestConfig
  /\ client = HiveMind(variant, TestConfig)
  /\ url = NoUrl
  /\ contribution = IdleContribution
  /\ contributions = {}
  /\ blocks = <<Ledger(0)>>
  /\ reading = IdleReading

Init ==
  /\ variant \in Variants
  /\ calls = [c \in Calls |-> IdleCall]
  /\ txs = <<>>
  /\ allowance \in {BigZero, Big(1, 0)}
  /\ projects = <<>>
  /\ blockNumber = 0
  /\ agents = DefaultAgent
  /\ lookup = IdleLookup
  /\ started = 0
  /\ units = IdleUnits
  /\ ClientReady

\* ------------------------------------------------ the client's decisions
\* (mutant) every funding-bearing write authorizes, zero amount or not
RunsAlways(v, op, amount) == op \in FundingOps

\* (mutant) every funding-bearing write skips the authorization at zero
RunsIfPositive(v, op, amount) == op \in FundingOps /\ BigLt(BigZero, amount)

\* (mutant) the client authorizes in its first call only
RunsFirstCallOnly(v, op, amount) ==
  /\ started = 0
  /\ op \in FundingOps
  /\ \/ op = "fundProject"
     \/ v = "single" /\ op = "createProject"
     \/ BigLt(BigZero, amount)

\* join / createProject: `if (amount > 0n) await this.ensureApproval(amount)`;
\* fundProject, and the single-file createProject, call it unconditionally.
RunsAllowanceProtocol(v, op, amount) ==
  CASE op = "join" -> BigLt(BigZero, amount)
    [] op = "createProject" -> IF v = "modular" THEN BigLt(BigZero, amount) ELSE TRUE
    [] op = "fundProject" -> TRUE
    [] OTHER -> FALSE

\* (mutant) the approve is submitted whatever the allowance read
NeedsApproveAlways(allow, amount) == TRUE

\* (mutant) an allowance equal to the amount is taken for insufficient
NeedsApproveOrEqual(allow, amount) == BigLe(allow, amount)

\* ensureApproval / approveUsdc: `if (allowance < amount)`
NeedsApprove(allow, amount) == BigLt(allow, amount)

\* (mutant) the approve covers the requested amount only
ApproveRequested(amount) == amount

\* the amount argument of the approve transaction
ApproveAmount(amount) == Ceiling

\* (mutant) the count itself is taken for the id
InferCount(count) == count

\* (mutant) the id before the last one
InferBeforeLast(count) == count - 2

\* createProject: `projectId = projectCount - 1`
InferProjectId(count) == count - 1

\* (mutant) the approve's receipt is not awaited
AfterStepNoWait(step, op) ==
  CASE step = "approve" -> "submit"
    [] step = "approveReceipt" -> "submit"
    [] step = "submit" -> "receipt"
    [] step = "receipt" -> IF op = "createProject" THEN "projectCount" ELSE "done"
    [] OTHER -> "done"

\* the await that follows each await of a write method, in program order
AfterStep(step, op) ==
  CASE step = "approve" -> "approveReceipt"
    [] step = "approveReceipt" -> "submit"
    [] step = "submit" -> "receipt"
    [] step = "receipt" -> IF op = "createProject" THEN "projectCount" ELSE "done"
    [] OTHER -> "done"

\* (mutant) the block before the receipt's is returned
TxResultEarly(v, h, receiptBlock) ==
  IF v = "modular" THEN [hash |-> h, blockNumber |-> receiptBlock - 1]
  ELSE [hash |-> h]

\* what a write returns once its receipt is in
TxResult(v, h, receiptBlock) ==
  IF v = "modular" THEN [hash |-> h, blockNumber |-> receiptBlock]
  ELSE [hash |-> h]

CreateResult(v, id, h, receiptBlock) ==
  IF v = "modular" THEN [projectId |-> id, hash |-> h, blockNumber |-> receiptBlock]
  ELSE [hash |-> h, projectId |-> id]

\* -------------------------------------------------------------- steps
\* the RPC call `step` of call c is issued: it is the call in flight
Issue(call, step) == [call EXCEPT !.pc = step, !.steps = Append(@, step)]

NewTx(kind, amount, args, c) ==
  [kind |-> kind, amount |-> amount, args |-> args, call |-> c,
   status |-> "pending", block |-> 0]

\* (mutant) the authorization step converts the input again, from its
\* integer part
EnsureReconverted(x, amount) == ParseUnits(Num(x.int, <<>>), USDC_DECIMALS)

\* `await this.ensureApproval(amount)`: the argument is the method's one
\* converted amount
EnsureArg(x, amount) == amount

\* (mutant) a percentage above 100 is submitted as 100
TxArgsClamped(op, x) ==
  CASE op = "recordContribution" ->
         <<x.projectId, x.agent, IF x.percentage > 100 THEN 100 ELSE x.percentage>>
    [] op \in {"completeProject", "claimRewards"} -> <<x.projectId>>
    [] OTHER -> <<>>

\* the arguments of a non-funding write's transaction, besides none being an
\* amount: `[BigInt(projectId), agent, BigInt(percentage)]` and
\* `[BigInt(projectId)]`; BigInt of an integer is that integer
TxArgs(op, x) ==
  CASE op = "recordContribution" -> <<x.projectId, x.agent, x.percentage>>
    [] op \in {"completeProject", "claimRewards"} -> <<x.projectId>>
    [] OTHER -> <<>>

\* the arguments a program passes to a method: an amount to the
\* funding-bearing writes, a project (and an agent's percentage) to the others
ArgsOf(op, amounts, percentages) ==
  IF op \in FundingOps THEN amounts
  ELSE IF op = "recordContribution"
       THEN {[projectId |-> 1, agent |-> Queried, percentage |-> p] :
               p \in percentages}
       ELSE {[projectId |-> 1]}

\* the program calls a method of its client
Start(c, op, x) ==
  /\ calls[c].pc = "idle"
  /\ c > 1 => calls[c - 1].pc # "idle"
  /\ LET amount == IF op \in FundingOps THEN ParseUnits(x, USDC_DECIMALS) ELSE BigZero
         begun == [IdleCall EXCEPT !.op = op, !.amount = amount,
                                   !.args = IF op = "getProject" THEN NoArgs ELSE x]
     IN calls' = [calls EXCEPT ![c] =
          IF op = "getProject"
          THEN [begun EXCEPT !.pc = "reads",
                             !.steps = <<"projects", "getContributors">>,
                             !.reads = <<"pending", "pending">>]
          ELSE IF RunsAllowanceProtocol(variant, op, amount)
               THEN Issue([begun EXCEPT !.ensure = EnsureArg(x, amount)],
                          "allowance")
               ELSE Issue(begun, "submit")]
  /\ started' = started + 1
  /\ UNCHANGED <<others, agents, lookup, variant, txs, allowance, projects, blockNumber>>

\* the allowance read resolves with the chain's current value
AllowanceRead(c) ==
  /\ calls[c].pc = "allowance"
  /\ LET read == [calls[c] EXCEPT !.allowance = allowance]
     IN calls' = [calls EXCEPT ![c] =
          IF NeedsApprove(allowance, calls[c].ensure)
          THEN Issue(read, "approve")
          ELSE Issue(read, "submit")]
  /\ UNCHANGED <<others, started, agents, lookup, variant, txs, allowance, projects, blockNumber>>

\* writeContract(approve) resolves with the hash of the submitted transaction
ApproveSubmit(c) ==
  /\ calls[c].pc = "approve"
  /\ txs' = Append(txs, NewTx("approve", ApproveAmount(calls[c].ensure), <<>>, c))
  /\ calls' = [calls EXCEPT ![c] =
       Issue([calls[c] EXCEPT !.approveHash = Len(txs) + 1],
             AfterStep("approve", calls[c].op))]
  /\ UNCHANGED <<others, started, agents, lookup, variant, allowance, projects, blockNumber>>

\* waitForTransactionReceipt(approve hash) resolves once the approve is mined
ApproveReceipt(c) ==
  /\ calls[c].pc = "approveReceipt"
  /\ txs[calls[c].approveHash].status # "pending"
  /\ calls' = [calls EXCEPT ![c] =
       Issue(calls[c], AfterStep("approveReceipt", calls[c].op))]
  /\ UNCHANGED <<others, started, agents, lookup, variant, txs, allowance, projects, blockNumber>>

\* writeContract(primary ledger function) resolves with the hash
PrimarySubmit(c) ==
  /\ calls[c].pc = "submit"
  /\ txs' = Append(txs, NewTx(LedgerFn(calls[c].op), calls[c].amount,
                            TxArgs(calls[c].op, calls[c].args), c))
  /\ calls' = [calls EXCEPT ![c] =
       Issue([calls[c] EXCEPT !.hash = Len(txs) + 1],
             AfterStep("submit", calls[c].op))]
  /\ UNCHANGED <<others, started, agents, lookup, variant, allowance, projects, blockNumber>>

\* waitForTransactionReceipt(hash) resolves once the transaction is mined;
\* the receipt's status (success or reverted) is not looked at
PrimaryReceipt(c) ==
  /\ calls[c].pc = "receipt"
  /\ txs[calls[c].hash].status # "pending"
  /\ LET got == [calls[c] EXCEPT !.blockNumber = txs[calls[c].hash].block]
     IN calls' = [calls EXCEPT ![c] =
          IF AfterStep("receipt", calls[c].op) = "done"
          THEN [got EXCEPT !.pc = "done",
                           !.result = TxResult(variant, got.hash, got.blockNumber)]
          ELSE Issue(got, AfterStep("receipt", calls[c].op))]
  /\ UNCHANGED <<others, started, agents, lookup, variant, txs, allowance, projects, blockNumber>>

\* createProject's re-read of projectCount resolves
CountRead(c) ==
  /\ calls[c].pc = "projectCount"
  /\ calls' = [calls EXCEPT ![c] =
       [calls[c] EXCEPT !.pc = "done", !.count = Len(projects),
                 !.result = CreateResult(variant, InferProjectId(Len(projects)),
                                         calls[c].hash, calls[c].blockNumber)]]
  /\ UNCHANGED <<others, started, agents, lookup, variant, txs, allowance, projects, blockNumber>>

SequentialSteps == {"allowance", "approve", "approveReceipt", "submit", "receipt",
                    "projectCount"}

\* (mutant) a failed RPC call is issued again
OnFailureRetry(call) == Issue(call, call.pc)

\* no method catches: the error of the awaited RPC call is the method's
OnFailure(call) == [call EXCEPT !.pc = "rejected", !.error = call.pc]

\* the RPC call in flight rejects: the await throws out of the method
Fail(c) ==
  /\ calls[c].pc \in SequentialSteps
  /\ calls' = [calls EXCEPT ![c] = OnFailure(calls[c])]
  /\ UNCHANGED <<others, started, agents, lookup, variant, txs, allowance, projects, blockNumber>>

\* getProject: Promise.all over the two reads in flight
ReadName(i) == IF i = 1 THEN "projects" ELSE "getContributors"

ReadOk(c, i) ==
  /\ calls[c].reads # <<>>
  /\ calls[c].reads[i] = "pending"
  /\ LET rs == [calls[c].reads EXCEPT ![i] = "ok"]
         got == [calls[c] EXCEPT !.reads = rs]
     IN calls' = [calls EXCEPT ![c] =
          IF calls[c].pc = "reads" /\ rs = <<"ok", "ok">>
          THEN [got EXCEPT !.pc = "done", !.result = [kind |-> "Project"]]
          ELSE got]
  /\ UNCHANGED <<others, started, agents, lookup, variant, txs, allowance, projects, blockNumber>>

ReadFail(c, i) ==
  /\ calls[c].reads # <<>>
  /\ calls[c].reads[i] = "pending"
  /\ LET got == [calls[c] EXCEPT !.reads[i] = "failed"]
     IN calls' = [calls EXCEPT ![c] =
          IF calls[c].pc = "reads"
          THEN [got EXCEPT !.pc = "rejected", !.error = ReadName(i)]
          ELSE got]
  /\ UNCHANGED <<others, started, agents, lookup, variant, txs, allowance, projects, blockNumber>>

\* ------------------------------------------------------------ the chain
Pending == {h \in 1..Len(txs) : txs[h].status = "pending"}

\* the account's transactions are mined in nonce order, one block each
NextToMine == CHOOSE h \in Pending : \A g \in Pending : h <= g

Mined(h, status) == [txs EXCEPT ![h].status = status, ![h].block = blockNumber + 1]

\* the next transaction is mined and takes effect: approve sets the
\* allowance; a ledger function pulls its amount out of the allowance
MineSuccess ==
  /\ Pending # {}
  /\ LET h == NextToMine
         t == txs[h]
     IN /\ t.kind # "approve" => BigLe(t.amount, allowance)
        /\ txs' = Mined(h, "success")
        /\ allowance' = IF t.kind = "approve" THEN t.amount
                        ELSE BigSub(allowance, t.amount)
        /\ projects' = IF t.kind = "createProject" THEN Append(projects, h)
                       ELSE projects
  /\ blockNumber' = blockNumber + 1
  /\ UNCHANGED <<others, started, agents, lookup, variant, calls>>

\* the next transaction is mined and reverts (the allowance does not cover
\* it, or the ledger's own rules refuse it)
MineRevert ==
  /\ Pending # {}
  /\ txs[NextToMine].kind # "approve"
  /\ txs' = Mined(NextToMine, "reverted")
  /\ blockNumber' = blockNumber + 1
  /\ UNCHANGED <<others, started, agents, lookup, variant, calls, allowance, projects>>

\* another account's createProject confirms (in the block at the head)
OtherCreate ==
  /\ Len(projects) < MaxProjects
  /\ projects' = Append(projects, 0)
  /\ UNCHANGED <<others, started, agents, lookup, variant, calls, txs, allowance, blockNumber>>

\* a call is in flight from its first RPC call until it returns or throws
InFlight(c) == calls[c].pc \notin {"idle", "done", "rejected"}

\* the awaiting program takes the settled call's outcome; nothing of the call
\* is left in the client. What stays is on the chain: the transactions not
\* mined yet (nobody waits for them any more) and the effects of the mined.
\* Block heights are counted from here on: only the heights of blocks mined
\* during one call are ever compared.
IsPending(t) == t.status = "pending"
Orphan(t) == [t EXCEPT !.call = 0]

Return(c) ==
  /\ calls[c].pc \in {"done", "rejected"}
  /\ \A d \in Calls \ {c} : calls[d].pc = "idle"
  /\ calls' = [calls EXCEPT ![c] = IdleCall]
  /\ txs' = LET left == SelectSeq(txs, IsPending)
            IN [h \in 1..Len(left) |-> Orphan(left[h])]
  /\ projects' = [i \in 1..Len(projects) |-> 0]
  /\ blockNumber' = 0
  /\ UNCHANGED <<others, started, agents, lookup, variant, allowance>>

\* what the client and the chain do once a call has begun
OwnStep ==
  \/ \E c \in Calls : AllowanceRead(c)
  \/ \E c \in Calls : ApproveSubmit(c)
  \/ \E c \in Calls : ApproveReceipt(c)
  \/ \E c \in Calls : PrimarySubmit(c)
  \/ \E c \in Calls : PrimaryReceipt(c)
  \/ \E c \in Calls : CountRead(c)
  \/ \E c \in Calls : Fail(c)
  \/ \E c \in Calls, i \in 1..2 : ReadOk(c, i)
  \/ \E c \in Calls, i \in 1..2 : ReadFail(c, i)
  \/ MineSuccess
  \/ MineRevert

\* the same on a chain where other accounts create projects as well
Step == OwnStep \/ OtherCreate

\* a program that awaits each call before it makes the next, with no other
\* account creating projects meanwhile
Next ==
  \/ \E op \in Ops : \E x \in ArgsOf(op, Inputs, {50}) :
       started < MaxCalls /\ Start(1, op, x)
  \/ Return(1)
  \/ OwnStep

Spec == Init /\ [][Next]_vars

\* a program that makes funding-bearing calls without awaiting the previous one
ConcOps == {"createProject", "fundProject", "getProject"}
ConcInputs == {Num(0, <<5>>), Num(2, <<>>)}

NextConc ==
  \/ \E c \in Calls, op \in ConcOps : \E x \in ArgsOf(op, ConcInputs, {50}) :
       Start(c, op, x)
  \/ Step

SpecConc == Init /\ [][NextConc]_vars

\* a program that makes two calls without awaiting the first, with amounts
\* (0.75 and 2) that an allowance of 1 covers one by one at most
RaceInputs == {Num(0, <<7, 5>>), Num(2, <<>>)}

NextRace ==
  \/ \E c \in Calls, op \in ConcOps : \E x \in ArgsOf(op, RaceInputs, {50}) :
       Start(c, op, x)
  \/ Step

SpecRace == Init /\ [][NextRace]_vars

\* a program that makes two calls of any kind, the second once the first has
\* settled, with an allowance of 0 to begin with; the transactions of both
\* calls stay on record
SeqInputs ==
  {Num(0, <<>>), Num(0, <<5>>), Num(CeilingUsdc \div 2, <<>>),
   Num(6 * (CeilingUsdc \div 10), <<>>), Num(CeilingUsdc + 1, <<>>)}

\* the percentages a creator records, within 0..100 and above
Percentages == {50, 100, 101, 250}

Awaited(c) == \A d \in Calls : d < c => calls[d].pc \in {"done", "rejected"}

InitSeq == Init /\ allowance = BigZero

NextSeq ==
  \/ \E c \in Calls, op \in Ops : \E x \in ArgsOf(op, SeqInputs, Percentages) :
       Awaited(c) /\ Start(c, op, x)
  \/ Step

SpecSeq == InitSeq /\ [][NextSeq]_vars

\* ------------------------------------------------------------ getAgent
Null == [kind |-> "null"]

\* new Date(Number(seconds) * 1000)
Date(seconds) == [ms |-> seconds * 1000]

AgentRecord(result) ==
  [wallet |-> result[1], nodeId |-> result[2], creditsContributed |-> result[3],
   computeScore |-> result[4], joinedAt |-> Date(result[5]), active |-> result[6]]

\* (mutant) the modular client keys existence off the active flag
GetAgentModularActive(result) == IF ~result[6] THEN Null ELSE AgentRecord(result)

\* modular client: `if (result[4] === 0n) return null`
GetAgentModular(result) == IF result[5] = 0 THEN Null ELSE AgentRecord(result)

\* single-file client: `if (!result[5]) return null // not active`
GetAgentSingle(result) == IF ~result[6] THEN Null ELSE AgentRecord(result)

GetAgent(v, result) ==
  IF v = "modular" THEN GetAgentModular(result) ELSE GetAgentSingle(result)

\* getAgent issues its read of agents(address)
GetAgentStart ==
  /\ lookup.pc = "idle"
  /\ lookup' = [lookup EXCEPT !.pc = "agents"]
  /\ UNCHANGED <<others, variant, calls, txs, allowance, projects, blockNumber, agents,
                 started>>

\* the read resolves and the tuple is decoded
GetAgentRead ==
  /\ lookup.pc = "agents"
  /\ lookup' = [pc |-> "done", read |-> agents, result |-> GetAgent(variant, agents)]
  /\ UNCHANGED <<others, variant, calls, txs, allowance, projects, blockNumber, agents,
                 started>>

\* the read rejects
GetAgentFail ==
  /\ lookup.pc = "agents"
  /\ lookup' = [lookup EXCEPT !.pc = "rejected"]
  /\ UNCHANGED <<others, variant, calls, txs, allowance, projects, blockNumber, agents,
                 started>>

\* a client looking up an address on a ledger in any registration state
InitAgent ==
  /\ variant \in Variants
  /\ calls = [c \in Calls |-> IdleCall]
  /\ txs = <<>>
  /\ allowance = BigZero
  /\ projects = <<>>
  /\ blockNumber = 0
  /\ agents \in AgentTuples
  /\ lookup = IdleLookup
  /\ started = 0
  /\ units = IdleUnits
  /\ ClientReady

NextAgent == GetAgentStart \/ GetAgentRead \/ GetAgentFail

SpecAgent == InitAgent /\ [][NextAgent]_vars

\* ------------------------------------------------- strings of a number
\* A numeric string: digits, "." and digits, or (Number.prototype.toString
\* only) the exponential notation d.ddde+x.
Fixed(i, f) == [int |-> i, frac |-> f, sci |-> FALSE, exp |-> 0]
Exponential(i, f, e) == [int |-> i, frac |-> f, sci |-> TRUE, exp |-> e]

\* viem formatUnits(value, decimals): the digits padded to `decimals`, cut
\* `decimals` from the end, the fraction without its trailing zeros
FormatUnits(value, decimals) ==
  LET display == Zeros(decimals - Len(value)) \o value
      cut == Len(display) - decimals
      integer == SubSeq(display, 1, cut)
      fraction == StripEnd(SubSeq(display, cut + 1, Len(display)))
  IN Fixed(IF integer = <<>> THEN <<0>> ELSE integer, fraction)

\* what a conversion to a bigint comes to: the bigint, or the error thrown
Parsed(ds) == [error |-> "none", value |-> ds]
InvalidDecimalNumberError == [error |-> "InvalidDecimalNumberError", value |-> <<>>]

\* viem parseUnits(value, decimals) on strings of any length: a string that
\* is not digits, "." and digits is refused; the fraction is padded to
\* `decimals` digits, or rounded half-up at digit `decimals` when longer
ParseUnitsString(value, decimals) ==
  IF value.sci THEN InvalidDecimalNumberError
  ELSE LET fraction == StripEnd(value.frac)
       IN IF Len(fraction) > decimals
          THEN LET kept == Trim(value.int \o SubSeq(fraction, 1, decimals))
               IN Parsed(IF fraction[decimals + 1] >= 5 THEN DecAdd(kept, <<1>>)
                         ELSE kept)
          ELSE Parsed(Trim(value.int \o fraction \o Zeros(decimals - Len(fraction))))

\* --------------------------------------------------------- JS numbers
\* A Number is an IEEE-754 double: zero, or m / 2^sh with 2^52 <= m < 2^53.
TwoTo52 == Shl(<<1>>, 52)
TwoTo53 == Shl(<<1>>, 53)
ZeroNumber == [m |-> <<0>>, sh |-> 0]

\* the largest e with p * 2^e <= n, for n >= p and for n < p (twenty
\* binades at a time while that does not overshoot)
RECURSIVE BinadeUp(_, _, _)
BinadeUp(n, p, e) ==
  LET far == DecTimes(p, Pow2(20))
      q == DecTimes(p, 2)
  IN IF DecCmp(far, n) <= 0 THEN BinadeUp(n, far, e + 20)
     ELSE IF DecCmp(q, n) <= 0 THEN BinadeUp(n, q, e + 1)
     ELSE e

RECURSIVE BinadeDown(_, _, _)
BinadeDown(n, p, e) ==
  LET far == DecTimes(n, Pow2(20))
  IN IF DecCmp(n, p) >= 0 THEN e
     ELSE IF DecCmp(far, p) < 0 THEN BinadeDown(far, p, e - 20)
     ELSE BinadeDown(DecTimes(n, 2), p, e - 1)

\* Number(string) of a string in fixed notation: the double nearest to its
\* value n / 10^f, ties to the even significand
NumberOf(str) ==
  LET f == Len(str.frac)
      n == Trim(str.int \o str.frac)
      p == <<1>> \o Zeros(f)
  IN IF n = <<0>> THEN ZeroNumber
     ELSE LET e == IF DecCmp(n, p) >= 0 THEN BinadeUp(n, p, 0)
                   ELSE BinadeDown(n, p, 0)
              sh == 52 - e
              a == Shl(n, sh)
              d == Shl(p, -sh)
              q == Shr(DivPow10(a, f), -sh)
              r == DecSub(a, Shl(MulPow10(q, f), -sh))
              twice == DecTimes(r, 2)
              up == DecCmp(twice, d) > 0 \/ (twice = d /\ IsOdd(q))
              m == IF up THEN DecAdd(q, <<1>>) ELSE q
          IN IF m = TwoTo53 THEN [m |-> TwoTo52, sh |-> sh - 1]
             ELSE [m |-> m, sh |-> sh]

\* The shortest decimal that reads back as the double (Number::toString,
\* step 5): the coarsest grid 10^j with a multiple g * 10^j inside the
\* double's rounding interval [lo, hi], and of two such multiples the one
\* closer to the double. xn, lo and hi are numerators over 2^dn.
RECURSIVE Shortest(_, _, _, _, _, _)
Shortest(xn, lo, hi, dn, closed, j) ==
  LET sx == MulPow10(xn, -j)
      slo == MulPow10(lo, -j)
      shi == MulPow10(hi, -j)
      floor == Shr(DivPow10(sx, j), dn)
      ceil == DecAdd(floor, <<1>>)
      vf == Shl(MulPow10(floor, j), dn)
      vc == Shl(MulPow10(ceil, j), dn)
      inF == IF closed THEN DecCmp(slo, vf) <= 0 ELSE DecCmp(slo, vf) < 0
      inC == IF closed THEN DecCmp(vc, shi) <= 0 ELSE DecCmp(vc, shi) < 0
      nearer == DecCmp(DecAdd(vf, vc), DecTimes(sx, 2))
  IN IF vf = sx THEN [digits |-> floor, j |-> j]
     ELSE IF inF /\ inC
          THEN [digits |-> IF nearer > 0 THEN floor
                           ELSE IF nearer < 0 THEN ceil
                           ELSE IF IsOdd(floor) THEN ceil ELSE floor,
                j |-> j]
     ELSE IF inF THEN [digits |-> floor, j |-> j]
     ELSE IF inC THEN [digits |-> ceil, j |-> j]
     ELSE Shortest(xn, lo, hi, dn, closed, j - 1)

\* Number.prototype.toString(): the shortest digits, in fixed notation when
\* the decimal point falls within 21 digits to the right or 6 zeros to the
\* left of them, in exponential notation otherwise
NumberToString(x) ==
  IF x = ZeroNumber THEN Fixed(<<0>>, <<>>)
  ELSE LET t == x.sh + 2
           up == Max(-t, 0)
           m4 == DecTimes(x.m, 4)
           s == Shortest(Shl(m4, up),
                         Shl(DecSub(m4, IF x.m = TwoTo52 THEN <<1>> ELSE <<2>>), up),
                         Shl(DecAdd(m4, <<2>>), up),
                         Max(t, 0), ~IsOdd(x.m),
                         Len(Shr(Shl(x.m, -x.sh), x.sh)))
           k == Len(s.digits)
           n == k + s.j
       IN IF k <= n /\ n <= 21 THEN Fixed(s.digits \o Zeros(n - k), <<>>)
          ELSE IF 0 < n /\ n <= 21
               THEN Fixed(SubSeq(s.digits, 1, n), SubSeq(s.digits, n + 1, k))
          ELSE IF -6 < n /\ n <= 0 THEN Fixed(<<0>>, Zeros(-n) \o s.digits)
          ELSE Exponential(<<s.digits[1]>>, Tail(s.digits), n - 1)

\* getUsdcBalance: `Number(formatUnits(balance, USDC_DECIMALS))`
ToDecimal(balance) == NumberOf(FormatUnits(balance, USDC_DECIMALS))

\* fundProject: `parseUnits(amount.toString(), USDC_DECIMALS)`
ToSmallestUnit(amount) == ParseUnitsString(NumberToString(amount), USDC_DECIMALS)

\* the balances a token contract can report: up to the approval ceiling the
\* client itself grants, around 2^32 and 2^33 whole tokens, and 10^21 tokens
Balances ==
  {DigitsOf(n) : n \in {0, 1, 999999}}
    \cup {DigitsOf(t * Unit + f) : t \in {1, 20}, f \in {0, 500000, 123456}}
    \cup {DecAdd(MulPow10(<<1>>, 12), DigitsOf(f)) : f \in {0, 1}}
    \cup {DecAdd(MulPow10(Shl(<<1>>, e), USDC_DECIMALS), DigitsOf(f)) :
            e \in {32, 33}, f \in 0..5}
    \cup {MulPow10(<<1>>, 21 + USDC_DECIMALS)}

\* the amounts a caller can pass, as it writes them
Amounts ==
  {Fixed(DigitsOf(i), f) :
     i \in {0, 1, 20}, f \in {<<>>, <<5>>, <<0, 0, 0, 0, 0, 1>>, <<1, 2, 3, 4, 5, 6>>}}
    \cup {Fixed(MulPow10(<<1>>, e), <<>>) : e \in {6, 20, 21}}

\* a conversion under way: what came in, the value in between, what came out
InBalance(n) == [from |-> "balance", pc |-> "in", balance |-> n,
                 number |-> NoNumber, out |-> NoDigits, back |-> NoNumber]
InAmount(x) == [from |-> "amount", pc |-> "in", balance |-> NoDigits,
                number |-> x, out |-> NoDigits, back |-> NoNumber]

\* getUsdcBalance returns the decimal of the balance read
FormatBalance ==
  /\ \/ units.from = "balance" /\ units.pc = "in"
     \/ units.from = "amount" /\ units.pc = "half"
  /\ units' =
       IF units.from = "balance"
       THEN [units EXCEPT !.pc = "half", !.number = ToDecimal(units.balance)]
       ELSE [units EXCEPT !.pc = "done", !.back = ToDecimal(units.out)]
  /\ UNCHANGED <<variant, calls, txs, allowance, projects, blockNumber, agents,
                 lookup, started, config, client, url, contribution,
                 contributions, blocks, reading>>

\* a funding-bearing write converts its amount argument
ParseAmount ==
  /\ \/ units.from = "amount" /\ units.pc = "in"
     \/ units.from = "balance" /\ units.pc = "half"
  /\ LET parsed == ToSmallestUnit(units.number)
     IN units' =
          IF parsed.error # "none"
          THEN [units EXCEPT !.pc = "rejected"]
          ELSE [units EXCEPT !.out = parsed.value,
                             !.pc = IF units.from = "amount" THEN "half" ELSE "done"]
  /\ UNCHANGED <<variant, calls, txs, allowance, projects, blockNumber, agents,
                 lookup, started, config, client, url, contribution,
                 contributions, blocks, reading>>

\* a balance to show and fund again with, or an amount to fund and read back
InitUnits ==
  /\ variant = "modular"
  /\ calls = [c \in Calls |-> IdleCall]
  /\ txs = <<>>
  /\ allowance = BigZero
  /\ projects = <<>>
  /\ blockNumber = 0
  /\ agents = DefaultAgent
  /\ lookup = IdleLookup
  /\ started = 0
  /\ ClientReady
  /\ units \in {InBalance(n) : n \in Balances}
                 \cup {InAmount(NumberOf(x)) : x \in Amounts}

NextUnits == FormatBalance \/ ParseAmount

SpecUnits == InitUnits /\ [][NextUnits]_vars

\* ------------------------------------ the client object and its reads
\* the program constructs its client
Construct ==
  /\ client = NotConstructed
  /\ client' = HiveMind(variant, config)
  /\ UNCHANGED <<variant, calls, txs, allowance, projects, blockNumber, agents,
                 lookup, started, units, config, url, contribution, contributions,
                 blocks, reading>>

\* getExplorerUrl(hash) (modular client): no await, no RPC call
GetExplorerUrl(hash) ==
  /\ client # NotConstructed /\ client # Threw
  /\ variant = "modular"
  /\ url' = [hash |-> hash, result |-> ExplorerUrl(client.chain, hash)]
  /\ UNCHANGED <<variant, calls, txs, allowance, projects, blockNumber, agents,
                 lookup, started, units, config, client, contribution,
                 contributions, blocks, reading>>

\* getContribution(projectId, agent?) (modular client) issues its read
GetContributionStart(projectId, agent) ==
  /\ client # NotConstructed /\ client # Threw
  /\ variant = "modular"
  /\ contribution.pc \in {"idle", "done", "rejected"}
  /\ contribution' =
       [IdleContribution EXCEPT
          !.pc = "contributions", !.projectId = projectId, !.agent = agent,
          !.args = <<projectId, AgentOrSelf(agent, client.account.address)>>]
  /\ UNCHANGED <<variant, calls, txs, allowance, projects, blockNumber, agents,
                 lookup, started, units, config, client, url, contributions,
                 blocks, reading>>

\* the read resolves: `percentage: Number(result[0]), claimed: result[1]`
GetContributionRead ==
  /\ contribution.pc = "contributions"
  /\ LET result == Contributions(contribution.args[1], contribution.args[2])
     IN contribution' =
          [contribution EXCEPT
             !.pc = "done", !.read = result,
             !.result = [agent |-> AgentOrSelf(contribution.agent,
                                               client.account.address),
                         percentage |-> NumberOf(Fixed(result[1], <<>>)),
                         claimed |-> result[2]]]
  /\ UNCHANGED <<variant, calls, txs, allowance, projects, blockNumber, agents,
                 lookup, started, units, config, client, url, contributions,
                 blocks, reading>>

\* the read rejects
GetContributionFail ==
  /\ contribution.pc = "contributions"
  /\ contribution' = [contribution EXCEPT !.pc = "rejected", !.error = "contributions"]
  /\ UNCHANGED <<variant, calls, txs, allowance, projects, blockNumber, agents,
                 lookup, started, units, config, client, url, contributions,
                 blocks, reading>>

\* a program about to construct a client, on a ledger with some records
InitClient ==
  /\ variant \in Variants
  /\ calls = [c \in Calls |-> IdleCall]
  /\ txs = <<>>
  /\ allowance = BigZero
  /\ projects = <<>>
  /\ blockNumber = 0
  /\ agents = DefaultAgent
  /\ lookup = IdleLookup
  /\ started = 0
  /\ units = IdleUnits
  /\ config \in Configs(variant)
  /\ client = NotConstructed
  /\ url = NoUrl
  /\ contribution = IdleContribution
  /\ contributions \in Records
  /\ blocks = <<Ledger(0)>>
  /\ reading = IdleReading

NextClient ==
  \/ Construct
  \/ \E hash \in Hashes32 : GetExplorerUrl(hash)
  \/ \E projectId \in {1, 2}, agent \in {Undefined, Queried, TestAddress} :
       GetContributionStart(projectId, agent)
  \/ GetContributionRead
  \/ GetContributionFail

SpecClient == InitClient /\ [][NextClient]_vars

\* ------------------------------------- getProject and getHiveStats
\* how many blocks confirm while the program runs
MaxBlocks == 3

Latest == blocks[Len(blocks)]

\* JS Number(count) of a uint256 the ledger returned
Number(count) == NumberOf(Fixed(count, <<>>))

\* `const statusMap = ['Active', 'Completed', 'Cancelled']` of the
\* single-file client
StatusMap == <<"Active", "Completed", "Cancelled">>

\* (mutant) the status byte used as a 1-based position of the status map
StatusShifted(v, byte) ==
  IF v = "modular" THEN byte + 1
  ELSE IF byte \in 1..Len(StatusMap) THEN StatusMap[byte] ELSE Undefined

\* `project[5] as ProjectStatus` in the modular client,
\* `statusMap[project[5]]` in the single-file client
StatusOf(v, byte) ==
  IF v = "modular" THEN byte
  ELSE IF byte + 1 \in 1..Len(StatusMap) THEN StatusMap[byte + 1] ELSE Undefined

\* the record getProject builds from the two values read
Project(v, projectId, project, contributors) ==
  [id |-> projectId,
   name |-> project[1],
   repoUrl |-> project[2],
   creator |-> project[3],
   totalFunding |-> project[4],
   createdAt |-> Date(project[5]),
   status |-> StatusOf(v, project[6]),
   contributors |-> contributors]

\* the record getHiveStats (getStats in the single-file client) builds from
\* the three values read
HiveStats(v, agentCount, projectCount, totalCreditsPooled) ==
  [agentCount |-> Number(agentCount),
   projectCount |-> Number(projectCount),
   totalCreditsPooled |-> IF v = "modular" THEN ToDecimal(totalCreditsPooled)
                          ELSE totalCreditsPooled]

\* what a view function of the ledger returns in a given state
ReadValue(ledger, name, projectId) ==
  CASE name = "projects" -> ledger.projects[projectId]
    [] name = "getContributors" -> ledger.contributors[projectId]
    [] name = "getAgentCount" -> ledger.agentCount
    [] name = "projectCount" -> ledger.projectCount
    [] name = "totalCreditsPooled" -> ledger.totalCreditsPooled

\* the value the call resolves to once every read was served
Joined(v, r) ==
  IF r.op = "getProject"
  THEN Project(v, r.projectId, r.served[1].value, r.served[2].value)
  ELSE HiveStats(v, r.served[1].value, r.served[2].value, r.served[3].value)

CanRead == reading.pc \in {"idle", "done", "rejected"}

\* getProject(projectId) issues both reads at once
GetProjectStart(projectId) ==
  /\ CanRead
  /\ reading' =
       [IdleReading EXCEPT
          !.op = "getProject", !.pc = "reads", !.projectId = projectId,
          !.names = <<"projects", "getContributors">>,
          !.served = <<PendingRead, PendingRead>>, !.from = Len(blocks)]
  /\ UNCHANGED <<variant, calls, txs, allowance, projects, blockNumber, agents,
                 lookup, started, units, config, client, url, contribution,
                 contributions, blocks>>

\* getHiveStats() issues its three reads at once
GetHiveStatsStart ==
  /\ CanRead
  /\ reading' =
       [IdleReading EXCEPT
          !.op = "getHiveStats", !.pc = "reads",
          !.names = <<"getAgentCount", "projectCount", "totalCreditsPooled">>,
          !.served = <<PendingRead, PendingRead, PendingRead>>,
          !.from = Len(blocks)]
  /\ UNCHANGED <<variant, calls, txs, allowance, projects, blockNumber, agents,
                 lookup, started, units, config, client, url, contribution,
                 contributions, blocks>>

\* the node serves read i from the head of the chain; Promise.all resolves
\* when the last read was served
ServeRead(i) ==
  /\ i \in 1..Len(reading.served)
  /\ reading.served[i] = PendingRead
  /\ LET got == [reading EXCEPT
                   !.served[i] = Served(ReadValue(Latest, reading.names[i],
                                                  reading.projectId))]
     IN reading' =
          IF reading.pc = "reads"
             /\ \A j \in 1..Len(got.served) : got.served[j].state = "ok"
          THEN [got EXCEPT !.pc = "done", !.result = Joined(variant, got)]
          ELSE got
  /\ UNCHANGED <<variant, calls, txs, allowance, projects, blockNumber, agents,
                 lookup, started, units, config, client, url, contribution,
                 contributions, blocks>>

\* read i rejects; Promise.all rejects with the first rejection
RejectRead(i) ==
  /\ i \in 1..Len(reading.served)
  /\ reading.served[i] = PendingRead
  /\ LET got == [reading EXCEPT !.served[i] = FailedRead]
     IN reading' =
          IF reading.pc = "reads"
          THEN [got EXCEPT !.pc = "rejected", !.error = reading.names[i]]
          ELSE got
  /\ UNCHANGED <<variant, calls, txs, allowance, projects, blockNumber, agents,
                 lookup, started, units, config, client, url, contribution,
                 contributions, blocks>>

\* what a block with another account's transaction leaves alone
OfTheClient == <<variant, calls, txs, allowance, projects, blockNumber, agents,
                 lookup, started, units, config, client, url, contribution,
                 contributions, reading>>

\* a block with joinHive(nodeId, creditsToPool) of another agent confirms
JoinConfirms(credits) ==
  /\ Len(blocks) < MaxBlocks
  /\ blocks' = Append(blocks,
                      [Latest EXCEPT !.agentCount = DecAdd(@, DigitsOf(1)),
                                     !.totalCreditsPooled = DecAdd(@, credits)])
  /\ UNCHANGED OfTheClient

\* a block with recordContribution(projectId, agent, percentage) for a new
\* contributor confirms
RecordConfirms(projectId, agent) ==
  /\ Len(blocks) < MaxBlocks
  /\ Latest.projects[projectId] # DefaultProject
  /\ Latest.projects[projectId][6] = 0
  /\ \A k \in 1..Len(Latest.contributors[projectId]) :
       Latest.contributors[projectId][k] # agent
  /\ blocks' = Append(blocks,
                      [Latest EXCEPT !.contributors[projectId] = Append(@, agent)])
  /\ UNCHANGED OfTheClient

\* a block with completeProject(projectId) of its creator confirms
CompleteConfirms(projectId) ==
  /\ Len(blocks) < MaxBlocks
  /\ Latest.projects[projectId] # DefaultProject
  /\ Latest.projects[projectId][6] = 0
  /\ blocks' = Append(blocks, [Latest EXCEPT !.projects[projectId][6] = 1])
  /\ UNCHANGED OfTheClient

\* a client on a ledger whose project 1 is in any status
InitReads ==
  /\ variant \in Variants
  /\ calls = [c \in Calls |-> IdleCall]
  /\ txs = <<>>
  /\ allowance = BigZero
  /\ projects = <<>>
  /\ blockNumber = 0
  /\ agents = DefaultAgent
  /\ lookup = IdleLookup
  /\ started = 0
  /\ units = IdleUnits
  /\ config = TestConfig
  /\ client = HiveMind(variant, TestConfig)
  /\ url = NoUrl
  /\ contribution = IdleContribution
  /\ contributions = {}
  /\ blocks \in {<<Ledger(status)>> : status \in 0..2}
  /\ reading = IdleReading

NextReads ==
  \/ \E projectId \in ProjectIds : GetProjectStart(projectId)
  \/ GetHiveStatsStart
  \/ \E i \in 1..3 : ServeRead(i) \/ RejectRead(i)
  \/ JoinConfirms(DigitsOf(Unit))
  \/ \E agent \in {TestAddress, Queried} : RecordConfirms(1, agent)
  \/ CompleteConfirms(1)

SpecReads == InitReads /\ [][NextReads]_vars

\* ------------------------------------------------------------- claims
Hashes == 1..Len(txs)
ApprovesOf(c) == {h \in Hashes : txs[h].call = c /\ txs[h].kind = "approve"}
PrimariesOf(c) == {h \in Hashes : txs[h].call = c /\ txs[h].kind # "approve"}
Begun(c) == calls[c].pc # "idle"
Has(c, step) == \E i \in 1..Len(calls[c].steps) : calls[c].steps[i] = step
\* the allowance read of call c has returned
HasRead(c) == calls[c].allowance # NoBig
\* the approve of call c is no longer in the making: its submission has
\* resolved, with a hash or with an error
ApproveSettled(c) ==
  calls[c].pc # "approve" /\ ~(calls[c].pc = "rejected" /\ calls[c].error = "approve")

\* C1: in the allowance sub-protocol, a read >= the requested amount submits
\* no approve; a read < the amount submits exactly one approve, for the fixed
\* ceiling of 10^12 units whatever the amount, before the primary transaction
\* (which never exists without it).
C1_AllowanceProtocol ==
  /\ Ceiling = Big(CeilingUsdc, 0)
  /\ \A c \in Calls :
    /\ ~HasRead(c) => ApprovesOf(c) = {}
    /\ HasRead(c) /\ BigLe(calls[c].amount, calls[c].allowance)
         => ApprovesOf(c) = {} /\ ~Has(c, "approve")
    /\ HasRead(c) /\ BigLt(calls[c].allowance, calls[c].amount)
         => /\ Has(c, "approve")
            /\ Cardinality(ApprovesOf(c)) <= 1
            /\ ApproveSettled(c) => ApprovesOf(c) = {calls[c].approveHash}
            /\ \A h \in ApprovesOf(c) : txs[h].amount = Ceiling
            /\ \A p \in PrimariesOf(c) :
                 ApprovesOf(c) # {} /\ \A h \in ApprovesOf(c) : h < p

\* both cases in one run: the program's second call reads exactly the
\* ceiling, which only the first call's approve can have set, and goes on to
\* its primary transaction with no approve of its own
C1_Witness ==
  \E c \in Calls :
    /\ started = 2 /\ calls[c].pc = "done"
    /\ calls[c].allowance = Ceiling
    /\ BigLt(BigZero, calls[c].amount) /\ BigLe(calls[c].amount, Ceiling)
    /\ ApprovesOf(c) = {} /\ PrimariesOf(c) = {calls[c].hash}
    /\ txs[calls[c].hash].status = "success"

\* the order of the awaits of a funding-bearing write
Rank(step) ==
  CASE step = "allowance" -> 1
    [] step = "approve" -> 2
    [] step = "approveReceipt" -> 3
    [] step = "submit" -> 4
    [] step = "receipt" -> 5
    [] step = "projectCount" -> 6
    [] OTHER -> 0

\* C2: the steps of a funding-bearing write are strictly sequential
\* (allowance read, approve, approve receipt, primary submission, primary
\* receipt), and the primary transaction is never submitted before the
\* receipt of a submitted approve has been observed.
C2_Sequential ==
  \A c \in Calls :
    calls[c].op \in FundingOps =>
      /\ \A i, j \in 1..Len(calls[c].steps) :
           i < j => Rank(calls[c].steps[i]) < Rank(calls[c].steps[j])
      /\ Has(c, "approve") => Has(c, "allowance")
      /\ Has(c, "approveReceipt") => Has(c, "approve") /\ calls[c].approveHash # 0
      /\ Has(c, "receipt") => Has(c, "submit") /\ calls[c].hash # 0
      /\ (Has(c, "submit") \/ PrimariesOf(c) # {}) /\ ApprovesOf(c) # {}
           => /\ Has(c, "approveReceipt")
              /\ \A h \in ApprovesOf(c) : txs[h].status # "pending"
              /\ \A h \in ApprovesOf(c), p \in PrimariesOf(c) :
                   h < p /\ (txs[p].status # "pending" => txs[h].block < txs[p].block)

\* a write that went through all five steps
C2_Witness ==
  \E c \in Calls :
    /\ calls[c].pc = "done" /\ calls[c].op = "fundProject"
    /\ calls[c].steps = <<"allowance", "approve", "approveReceipt", "submit", "receipt">>
    /\ txs[calls[c].hash].status = "success"

\* the id of the project that transaction h created (ids are dense and
\* zero-based: the position in the project list)
Created(h) == \E i \in 1..Len(projects) : projects[i] = h
OwnId(h) == (CHOOSE i \in 1..Len(projects) : projects[i] = h) - 1
DoneCreate(c) ==
  /\ calls[c].pc = "done" /\ calls[c].op = "createProject"
  /\ Created(calls[c].hash)

\* C3: when the count was N before the caller's creation and N+1 at the
\* re-read (no other creation confirmed in between), createProject returns
\* N, the id of the project its own transaction created.
C3_IdInference ==
  \A c \in Calls :
    DoneCreate(c) /\ calls[c].count = OwnId(calls[c].hash) + 1
      => calls[c].result.projectId = OwnId(calls[c].hash)

\* a creation after another account's project, with no creation in between
C3_Witness ==
  \E c \in Calls :
    /\ DoneCreate(c) /\ calls[c].count = OwnId(calls[c].hash) + 1
    /\ calls[c].result.projectId = 1
    /\ projects[1] = 0

\* C4: when another creation confirms after the caller's project was created
\* and before the caller's re-read (in particular between its receipt and its
\* re-read), the returned id is not the id of the caller's project: it is the
\* id of the latest project, which is another transaction's.
C4_IdRace ==
  \A c \in Calls :
    DoneCreate(c) /\ calls[c].count # OwnId(calls[c].hash) + 1
      => /\ calls[c].count > OwnId(calls[c].hash) + 1
         /\ calls[c].result.projectId # OwnId(calls[c].hash)
         /\ calls[c].result.projectId = calls[c].count - 1
         /\ projects[calls[c].result.projectId + 1] # calls[c].hash

\* two interleaved createProject calls that created different projects and
\* both returned the same id
C4_Witness ==
  \E c, d \in Calls :
    /\ c # d /\ DoneCreate(c) /\ DoneCreate(d)
    /\ OwnId(calls[c].hash) # OwnId(calls[d].hash)
    /\ calls[c].result.projectId = calls[d].result.projectId

\* C5: getAgent on an address with no registration (the all-default tuple)
\* returns null; the modular getAgent returns null for every tuple with
\* joinedAt = 0, and for every tuple with joinedAt # 0 a record of the
\* tuple's six fields in order (joinedAt as the Date of that timestamp).
C5_GetAgent ==
  lookup.pc = "done" =>
    LET t == lookup.read
        r == lookup.result
    IN /\ t = DefaultAgent => r = Null
       /\ variant = "modular" /\ t[5] = 0 => r = Null
       /\ variant = "modular" /\ t[5] # 0
            => /\ r # Null
               /\ r.wallet = t[1] /\ r.nodeId = t[2]
               /\ r.creditsContributed = t[3] /\ r.computeScore = t[4]
               /\ r.joinedAt = Date(t[5]) /\ r.active = t[6]

\* a registered, inactive agent looked up with the modular client
C5_Witness ==
  /\ lookup.pc = "done" /\ variant = "modular"
  /\ lookup.read[5] # 0 /\ ~lookup.read[6]
  /\ lookup.result # Null /\ lookup.result.nodeId = "node-b"

\* C6: for every agent tuple the two clients' getAgent agree on whether
\* the result is null.
C6_UniformExistence ==
  lookup.pc = "done" =>
    ((GetAgentModular(lookup.read) = Null) <=> (GetAgentSingle(lookup.read) = Null))

\* C7: a write returns only after the receipt of its own primary transaction
\* has been observed; the returned hash is that transaction's, and the
\* returned blockNumber (modular client) is the block of its receipt, never
\* the approve's.
C7_ReturnsPrimary ==
  \A c \in Calls :
    calls[c].pc = "done" /\ calls[c].op \in WriteOps =>
      LET r == calls[c].result
          h == calls[c].hash
      IN /\ r.hash = h
         /\ PrimariesOf(c) = {h}
         /\ txs[h].kind = LedgerFn(calls[c].op)
         /\ Has(c, "receipt") /\ txs[h].status # "pending"
         /\ variant = "modular" => r.blockNumber = txs[h].block
         /\ \A a \in ApprovesOf(c) :
              r.hash # a /\ (variant = "modular" => r.blockNumber # txs[a].block)

\* a write of the modular client that returned after an approve: what it
\* returns is the transaction and the block after the approve's
C7_Witness ==
  \E c \in Calls :
    /\ calls[c].pc = "done" /\ calls[c].op = "join"
    /\ ApprovesOf(c) # {} /\ variant = "modular"
    /\ calls[c].result.hash = calls[c].approveHash + 1
    /\ calls[c].result.blockNumber = txs[calls[c].approveHash].block + 1

\* what every rejected call looks like: nothing returned, nothing issued
\* after the failed step, no primary after a failed authorization
FailedCleanly(c) ==
  calls[c].pc = "rejected" =>
    /\ calls[c].result = NoResult
    /\ calls[c].op # "getProject" =>
         /\ calls[c].error = calls[c].steps[Len(calls[c].steps)]
         /\ calls[c].error \in {"allowance", "approve", "approveReceipt"}
              => PrimariesOf(c) = {} /\ ~Has(c, "submit")
         /\ calls[c].error \in {"allowance", "approve"} => ApprovesOf(c) = {}
         /\ calls[c].error = "submit" => PrimariesOf(c) = {}

\* no RPC call of a call is issued twice
NeverReissued(c) ==
  /\ \A i, j \in 1..Len(calls[c].steps) :
       i # j => calls[c].steps[i] # calls[c].steps[j]
  /\ Cardinality(ApprovesOf(c)) <= 1
  /\ Cardinality(PrimariesOf(c)) <= 1

FailedReads(c) == {i \in 1..Len(calls[c].reads) : calls[c].reads[i] = "failed"}

\* C8 as stated: whenever an RPC step fails the operation rejects with that
\* step's error, runs none of its later steps and never re-issues the step.
C8_EveryFailureSurfaces ==
  \A c \in Calls :
    /\ FailedCleanly(c)
    /\ NeverReissued(c)
    /\ (calls[c].error # "none") <=> (calls[c].pc = "rejected")
    /\ \A i \in FailedReads(c) :
         calls[c].pc = "rejected" /\ calls[c].error = ReadName(i)

\* C8 (amended): the operation rejects with the error of the first step that
\* failed, runs none of its later steps and never re-issues a step; of the two
\* concurrent reads of getProject the later one to fail is dropped.
C8_NoRetry ==
  \A c \in Calls :
    /\ FailedCleanly(c)
    /\ NeverReissued(c)
    /\ (calls[c].error # "none") <=> (calls[c].pc = "rejected")
    /\ FailedReads(c) # {} =>
         /\ calls[c].pc = "rejected"
         /\ \E i \in FailedReads(c) : calls[c].error = ReadName(i)
    /\ calls[c].op = "getProject" /\ calls[c].pc = "rejected" => FailedReads(c) # {}

\* a getProject both of whose reads failed, the contributors read first
C8_Witness ==
  \E c \in Calls :
    /\ calls[c].pc = "rejected" /\ calls[c].error = "getContributors"
    /\ calls[c].reads = <<"failed", "failed">>

\* C9: with an amount of exactly zero, join and createProject submit no
\* approve in either client, and the modular client reads no allowance.
C9_ZeroSkips ==
  \A c \in Calls :
    calls[c].op \in {"join", "createProject"} /\ calls[c].amount = BigZero =>
      /\ ApprovesOf(c) = {} /\ ~Has(c, "approve")
      /\ variant = "modular" => ~Has(c, "allowance") /\ ~HasRead(c)
      /\ calls[c].op = "join" => ~Has(c, "allowance")

\* a zero-amount createProject that read the allowance 0 (single-file
\* client) and went on to its primary transaction without an approve
C9_Witness ==
  \E c \in Calls :
    /\ calls[c].op = "createProject" /\ calls[c].amount = BigZero
    /\ calls[c].pc = "done" /\ variant = "single"
    /\ calls[c].allowance = BigZero
    /\ txs[calls[c].hash].status = "success"

\* C10: fundProject reads the allowance first, for every amount, zero
\* included: its transaction is never submitted without the read before it.
C10_FundReadsFirst ==
  \A c \in Calls :
    calls[c].op = "fundProject" /\ Begun(c) =>
      /\ calls[c].steps[1] = "allowance"
      /\ Has(c, "submit") \/ PrimariesOf(c) # {} => HasRead(c)

\* a zero-amount fundProject submitted after its allowance read
C10_Witness ==
  \E c \in Calls :
    /\ calls[c].op = "fundProject" /\ calls[c].amount = BigZero
    /\ calls[c].pc = "done" /\ HasRead(c)
    /\ calls[c].steps = <<"allowance", "submit", "receipt">>

\* C11: unit conversion round-trips. A balance converted to a decimal (as
\* getUsdcBalance does) and back to smallest units (as a funding-bearing
\* write does) is the balance again; an amount with at most 6 fractional
\* digits converted to smallest units and back is the amount again.
C11_RoundTrip ==
  /\ units.from = "balance" /\ units.pc \in {"done", "rejected"}
       => units.pc = "done" /\ units.out = units.balance
  /\ units.from = "amount" /\ units.pc \in {"done", "rejected"}
       => units.pc = "done" /\ units.back = units.number

\* C12: getExplorerUrl(hash) is the explorer base of the client's network
\* (https://basescan.org for base, https://sepolia.basescan.org for
\* baseSepolia), then "/tx/", then the hash; the call issues no RPC call and
\* changes nothing of the client or the chain.
C12_ExplorerUrl ==
  /\ [](url # NoUrl =>
          /\ url.result = CHAINS[client.chain].explorer \o "/tx/" \o url.hash
          /\ client.chain = "base"
               => url.result = "https://basescan.org/tx/" \o url.hash
          /\ client.chain = "baseSepolia"
               => url.result = "https://sepolia.basescan.org/tx/" \o url.hash)
  /\ [][url' # url =>
          UNCHANGED <<variant, calls, txs, allowance, projects, blockNumber,
                      agents, lookup, started, units, config, client,
                      contribution, contributions, blocks, reading>>]_vars

\* the URL of the test suite's hash on the test network
C12_Witness ==
  /\ client.state = "constructed" /\ client.chain = "baseSepolia"
  /\ url.result = "https://sepolia.basescan.org/tx/0x1234567890abcdef1234567890abcdef1234567890abcdef1234567890abcdef"

\* the queried pair of the getContribution call has no record on the ledger
NeverRecorded ==
  \A r \in contributions :
    ~(r.projectId = contribution.projectId
      /\ r.agent = (IF contribution.agent = Undefined THEN client.account.address
                    ELSE contribution.agent))

\* C14: getContribution for a pair never recorded returns percentage 0 and
\* claimed false (it rejects only when the read itself fails); the agent of
\* the result is the queried agent, the caller's own address when the
\* argument is omitted.
C14_DefaultContribution ==
  /\ contribution.pc = "done" =>
       /\ contribution.agent = Undefined
            => contribution.result.agent = client.account.address
       /\ contribution.agent # Undefined
            => contribution.result.agent = contribution.agent
       /\ contribution.args = <<contribution.projectId, contribution.result.agent>>
       /\ NeverRecorded
            => /\ contribution.result.percentage = ZeroNumber
               /\ contribution.result.claimed = FALSE
  /\ contribution.pc = "rejected" =>
       contribution.error = "contributions" /\ contribution.result = NoResult

\* the caller asks about itself with the argument omitted, on a ledger that
\* has a record for another agent of the same project only
C14_Witness ==
  /\ contribution.pc = "done" /\ contribution.agent = Undefined
  /\ contribution.projectId = 1 /\ NeverRecorded
  /\ contributions # {}
  /\ contribution.result =
       [agent |-> client.account.address, percentage |-> ZeroNumber, claimed |-> FALSE]

\* the 64 hex characters of the key the program passed
KeyBody ==
  IF SubSeq(config.privateKey, 1, 2) = "0x"
  THEN SubSeq(config.privateKey, 3, Len(config.privateKey))
  ELSE config.privateKey

\* C15: the modular client constructed with a 64-hex-character key without
\* the 0x prefix has the signing key and the address of the client
\* constructed with the prefixed key; an already-prefixed key is left as it
\* is, and normalizing twice is normalizing once.
C15_KeyNormalization ==
  variant = "modular" /\ client # NotConstructed /\ Len(KeyBody) = 64 /\ IsHex(KeyBody) =>
    /\ client.state = "constructed"
    /\ client = HiveMind("modular", [config EXCEPT !.privateKey = "0x" \o KeyBody])
    /\ client.account.key = Lower(KeyBody)
    /\ client.account = PrivateKeyToAccount("0x" \o KeyBody)
    /\ NormalizeKey("0x" \o KeyBody) = "0x" \o KeyBody
    /\ NormalizeKey(NormalizeKey(config.privateKey)) = NormalizeKey(config.privateKey)

\* a client constructed from an unprefixed upper-case key
C15_Witness ==
  /\ variant = "modular" /\ client.state = "constructed"
  /\ config.privateKey = "AC0974BEC39A17E36BA4A6B4D238FF944BACB478CBED5EFCAE784D7BF4F2FF80"
  /\ client.account.key = "ac0974bec39a17e36ba4a6b4d238ff944bacb478cbed5efcae784d7bf4f2ff80"

\* the result of the call is what it would have been with every read served
\* from the chain state s
AtState(s) ==
  reading.result =
    IF reading.op = "getProject"
    THEN Project(variant, reading.projectId,
                 s.projects[reading.projectId], s.contributors[reading.projectId])
    ELSE HiveStats(variant, s.agentCount, s.projectCount, s.totalCreditsPooled)

\* C13: the record getProject(id) returns has the requested id, a status that
\* is one of the three enumerated values (0, 1, 2; their names in the
\* single-file client) for each status byte of the ledger, and as contributors
\* the array the getContributors(id) read returned.
C13_ProjectRecord ==
  reading.op = "getProject" /\ reading.pc = "done" =>
    /\ reading.result.id = reading.projectId
    /\ reading.served[1].value[6] \in 0..2
    /\ variant = "modular" =>
         /\ reading.result.status \in {0, 1, 2}
         /\ reading.result.status = reading.served[1].value[6]
    /\ variant = "single" =>
         /\ reading.result.status \in {"Active", "Completed", "Cancelled"}
         /\ reading.served[1].value[6] = 0 => reading.result.status = "Active"
         /\ reading.served[1].value[6] = 1 => reading.result.status = "Completed"
         /\ reading.served[1].value[6] = 2 => reading.result.status = "Cancelled"
    /\ reading.result.contributors = reading.served[2].value
    /\ Len(reading.result.contributors) = Len(reading.served[2].value)

\* a cancelled project with its one contributor was returned
C13_Witness ==
  /\ reading.op = "getProject" /\ reading.pc = "done" /\ reading.projectId = 1
  /\ reading.served[1].value[6] = 2
  /\ Len(reading.result.contributors) = 1
  /\ reading.result.id = 1

\* C17: whatever the order in which the chain serves the concurrent reads of
\* getProject and getHiveStats, and whatever confirms meanwhile, the joined
\* result equals the values of one single chain state of the call's lifetime.
C17_OneChainState ==
  reading.pc = "done" => \E b \in reading.from..Len(blocks) : AtState(blocks[b])

BigAdd(a, b) == Big(a.hi + b.hi + (a.lo + b.lo) \div Unit, (a.lo + b.lo) % Unit)

\* the funding-bearing writes the program has made so far
Funding == {c \in Calls : Begun(c) /\ calls[c].op \in FundingOps}
Settled(c) == calls[c].pc \in {"done", "rejected"}
\* the primary transaction of call c went through: it spent its amount
Spent(c) == calls[c].hash # 0 /\ txs[calls[c].hash].status = "success"
RECURSIVE Cumulative(_)
Cumulative(S) ==
  IF S = {} THEN BigZero
  ELSE LET c == CHOOSE d \in S : TRUE
       IN BigAdd(calls[c].amount, Cumulative(S \ {c}))
AllApproves == {h \in Hashes : txs[h].kind = "approve"}

C18_SingleConversion ==
  \A c \in Funding :
    /\ calls[c].amount = ParseUnits(calls[c].args, USDC_DECIMALS)
    /\ Has(c, "allowance") => calls[c].ensure = calls[c].amount
    /\ \A h \in PrimariesOf(c) :
         /\ txs[h].kind = LedgerFn(calls[c].op)
         /\ txs[h].amount = ParseUnits(calls[c].args, USDC_DECIMALS)
         /\ Has(c, "allowance") => txs[h].amount = calls[c].ensure

\* a write of 0.5 USDC compared 500000 units with the allowance and
\* submitted 500000 units
C18_Witness ==
  \E c \in Funding :
    /\ calls[c].args = Num(0, <<5>>)
    /\ HasRead(c) /\ calls[c].ensure = Big(0, 500000)
    /\ calls[c].hash # 0 /\ txs[calls[c].hash].amount = Big(0, 500000)

\* the first RPC call of a method, by its arguments alone
FirstStep(v, op, amount) ==
  IF op = "getProject" THEN "projects"
  ELSE IF op \in PlainOps THEN "submit"
  ELSE IF op = "fundProject" \/ (v = "single" /\ op = "createProject")
            \/ amount # BigZero
       THEN "allowance" ELSE "submit"

\* C19: no step of any call, succeeding or failing, changes the client's
\* configuration (account, network, ledger and token address); a call starts
\* from its arguments and the configuration alone, whatever calls came before,
\* and what it does next and returns is read from the chain.
C19_Stateless ==
  /\ client = HiveMind(variant, config) /\ client.state = "constructed"
  /\ [][client' = client /\ config' = config /\ variant' = variant]_vars
  /\ [][\A c \in Calls :
          calls[c].pc = "idle" /\ calls'[c].pc # "idle" =>
            LET call == calls'[c]
                amount == IF call.op \in FundingOps
                          THEN ParseUnits(call.args, USDC_DECIMALS) ELSE BigZero
            IN /\ call.op \in Ops
               /\ call.amount = amount
               /\ call.steps[1] = FirstStep(variant, call.op, amount)
               /\ call.allowance = NoBig /\ call.hash = 0 /\ call.approveHash = 0
               /\ call.count = -1 /\ call.result = NoResult /\ call.error = "none"]_vars
  /\ [](\A c \in Calls :
          /\ HasRead(c) /\ Len(calls[c].steps) > 1 =>
               (Has(c, "approve") <=> BigLt(calls[c].allowance, calls[c].amount))
          /\ calls[c].pc = "done" /\ calls[c].op \in WriteOps =>
               /\ calls[c].result.hash = calls[c].hash
               /\ variant = "modular" =>
                    calls[c].result.blockNumber = txs[calls[c].hash].block)

\* the same method with the same argument, called after a call that failed
\* and left its approve behind, takes the path the chain's allowance gives it
C19_Witness ==
  /\ calls[1].op = "fundProject" /\ calls[2].op = "fundProject"
  /\ calls[1].args = calls[2].args
  /\ calls[1].pc = "rejected" /\ Has(1, "approve")
  /\ calls[2].pc = "done" /\ ~Has(2, "approve")
  /\ client = HiveMind(variant, TestConfig)

\* the non-funding writes the program has made so far
Plain == {c \in Calls : Begun(c) /\ calls[c].op \in PlainOps}

\* C20: recordContribution, completeProject and claimRewards are one ledger
\* transaction submission with the caller's arguments as given, any integer
\* percentage included, then one receipt wait; they read no allowance and
\* submit no approve, and reject only when an RPC call fails.
C20_PlainWrites ==
  \A c \in Plain :
    /\ calls[c].steps \in {<<"submit">>, <<"submit", "receipt">>}
    /\ calls[c].allowance = NoBig /\ calls[c].ensure = NoBig
    /\ ApprovesOf(c) = {} /\ calls[c].approveHash = 0
    /\ Cardinality(PrimariesOf(c)) <= 1
    /\ Len(calls[c].steps) = 2 => PrimariesOf(c) = {calls[c].hash}
    /\ calls[c].pc = "done" => calls[c].steps = <<"submit", "receipt">>
    /\ calls[c].pc = "rejected" => calls[c].error \in {"submit", "receipt"}
    /\ \A h \in PrimariesOf(c) :
         /\ txs[h].kind = calls[c].op
         /\ txs[h].amount = BigZero
         /\ calls[c].op = "recordContribution" =>
              txs[h].args = <<calls[c].args.projectId, calls[c].args.agent,
                              calls[c].args.percentage>>
         /\ calls[c].op \in {"completeProject", "claimRewards"} =>
              txs[h].args = <<calls[c].args.projectId>>

\* two contributions of 250 and of 101 percent were recorded as given
C20_Witness ==
  /\ calls[1].op = "recordContribution" /\ calls[2].op = "recordContribution"
  /\ calls[1].pc = "done" /\ calls[2].pc = "done"
  /\ txs[calls[1].hash].args = <<1, Queried, 250>>
  /\ txs[calls[2].hash].args = <<1, Queried, 101>>
  /\ txs[calls[1].hash].status = "success"

\* the step in which the authorization step of call c returns without error:
\* from its allowance read when no approve is needed, from the wait for the
\* approve's receipt otherwise
Completes(c) ==
  /\ calls[c].pc \in {"allowance", "approveReceipt"}
  /\ calls'[c].pc = "submit"

\* C21: when ensureApproval(amount) returns without error in a sequential
\* run, the allowance is >= amount if and only if amount <= the ceiling or
\* the allowance read was already >= amount; for an amount above the ceiling
\* and a smaller allowance the approve has set the allowance to the ceiling,
\* which is below the amount, and the primary transaction is submitted all
\* the same.
C21_PostCondition ==
  /\ [][\A c \in Calls : Completes(c) =>
          LET amount == calls'[c].ensure
              was == calls'[c].allowance
          IN /\ amount = ParseUnits(calls[c].args, USDC_DECIMALS)
             /\ BigLe(amount, allowance')
                  <=> (BigLe(amount, Ceiling) \/ BigLe(amount, was))
             /\ BigLt(was, amount) =>
                  /\ allowance' = Ceiling
                  /\ txs[calls[c].approveHash].kind = "approve"
                  /\ txs[calls[c].approveHash].status = "success"
             /\ BigLe(amount, was) => allowance' = was /\ ApprovesOf(c) = {}
             /\ BigLt(Ceiling, amount) /\ BigLt(was, amount) =>
                  /\ BigLt(allowance', amount)
                  /\ calls'[c].steps =
                       <<"allowance", "approve", "approveReceipt", "submit">>]_vars
  /\ [][\A c \in Calls :
          calls[c].pc = "submit" /\ calls'[c].pc = "receipt" =>
            /\ txs' = Append(txs, txs'[calls'[c].hash])
            /\ txs'[calls'[c].hash].amount = calls[c].amount]_vars

\* a write of one USDC more than the ceiling: the approve went through, the
\* allowance is the ceiling, and the primary transaction was submitted (and
\* reverted)
C21_Witness ==
  \E c \in Calls :
    /\ calls[c].pc = "done" /\ calls[c].op = "fundProject"
    /\ calls[c].amount = Big(CeilingUsdc + 1, 0) /\ calls[c].allowance = BigZero
    /\ txs[calls[c].approveHash].status = "success"
    /\ allowance = Ceiling /\ BigLt(allowance, calls[c].amount)
    /\ txs[calls[c].hash].kind = "fundProject"
    /\ txs[calls[c].hash].amount = calls[c].amount
    /\ txs[calls[c].hash].status = "reverted"

\* both calls are funding-bearing writes that have read the same allowance
SameRead ==
  /\ Funding = Calls
  /\ \A c \in Calls : HasRead(c)
  /\ calls[1].allowance = calls[2].allowance

\* C22: nothing in the client orders the allowance check of one call against
\* the other call. Each call submits at most one approve; when two interleaved
\* funding-bearing writes read the same allowance, (a) if it is below both
\* amounts each call goes on to its own approve, two in total, and (b) if it
\* covers each amount but not their sum, neither approves, both primaries are
\* submitted, and once one has spent, the allowance is below the other's
\* amount, which cannot go through.
C22_UnsynchronizedCheck ==
  /\ \A c \in Calls : Cardinality(ApprovesOf(c)) <= 1
  /\ SameRead /\ (\A c \in Calls : BigLt(calls[c].allowance, calls[c].amount))
       => /\ \A c \in Calls : Has(c, "approve")
          /\ (\A c \in Calls : calls[c].approveHash # 0)
               => /\ calls[1].approveHash # calls[2].approveHash
                  /\ AllApproves = {calls[1].approveHash, calls[2].approveHash}
                  /\ Cardinality(AllApproves) = 2
                  /\ \A h \in AllApproves : txs[h].amount = Ceiling
  /\ SameRead /\ (\A c \in Calls : BigLe(calls[c].amount, calls[c].allowance))
     /\ BigLt(calls[1].allowance, BigAdd(calls[1].amount, calls[2].amount))
       => /\ AllApproves = {}
          /\ \A c \in Calls : ~Has(c, "approve") /\ Has(c, "submit")
          /\ \A c, d \in Calls :
               c # d /\ calls[c].hash # 0 /\ txs[calls[c].hash].status = "success"
                 => /\ allowance = BigSub(calls[c].allowance, calls[c].amount)
                    /\ BigLt(allowance, calls[d].amount)
                    /\ calls[d].hash # 0 => txs[calls[d].hash].status # "success"

\* (b): from an allowance of 1 USDC both writes of 0.75 USDC passed the check
\* without an approve, and the second primary ran into an allowance of 0.25
C22_Witness ==
  /\ SameRead /\ calls[1].allowance = Big(1, 0)
  /\ \A c \in Calls : calls[c].pc = "done" /\ calls[c].amount = Big(0, 750000)
  /\ AllApproves = {}
  /\ txs[calls[1].hash].status = "success"
  /\ txs[calls[2].hash].status = "reverted"
  /\ allowance = Big(0, 250000)

\* (a): from an allowance of 0 both writes read 0 and each submitted its own
\* approve for the ceiling
C22_BothApprove ==
  /\ SameRead /\ calls[1].allowance = BigZero
  /\ \A c \in Calls : calls[c].pc = "done" /\ BigLt(BigZero, calls[c].amount)
  /\ Cardinality(AllApproves) = 2
  /\ \A h \in AllApproves : txs[h].amount = Ceiling /\ txs[h].status = "success"

====
